---- MODULE Spec2Model ----
(***************************************************************************)
(* Model of pedalboard's ExternalPlugin<ExternalPluginType> adapter        *)
(* (src/pedalboard/ExternalPlugin.h): the life cycle of plugin handles     *)
(* (constructor, reinstantiatePlugin, reset, destructor) over the global   *)
(* EXTERNAL_PLUGIN_MUTEX / NUM_ACTIVE_EXTERNAL_PLUGINS / MessageManager    *)
(* state, the channel negotiation of setNumChannels and the buffer set-up  *)
(* of process().                                                           *)
(*                                                                         *)
(* Every handle is driven by one thread at a time; different handles run   *)
(* concurrently.  pc[h] is the position of the thread working on handle h. *)
(* The native framework (JUCE) is outside the source: an instance is a     *)
(* heap object with an opaque parameter state, a log of the life-cycle     *)
(* calls made on it and its bus lists; createPluginInstance and            *)
(* Bus::setNumberOfChannels may fail, which the code itself provides for.  *)
(***************************************************************************)
EXTENDS Integers, Sequences, FiniteSets, TLC

(* ------------------------------ bounds -------------------------------- *)

\* Number of handle slots (each slot is one thread's current handle).
NumHandles == 2

\* Native instances createPluginInstance may hand out in one behaviour.
MaxCreates == 2

\* Largest channel count a caller asks for or passes in a block.
MaxChannels == 2

\* Largest number of samples per channel of a block.
MaxSamples == 2

\* Largest number of parameters of a plugin in the parameter look-ups.
MaxParams == 3

\* Longest parameter name, in characters, short of the over-long one.
MaxNameLen == 1

\* The truncation length getParameter asks getName for.
DisplayNameLength == 512

Handles == 1..NumHandles

\* Values of the plugin's (single, abstract) parameter state.
ParamValues == {"default", "changed"}

\* The parameter state of a newly created instance.
DefaultParam == "default"

(* --------------------------- the file system -------------------------- *)

\* Plugin files a constructor may be pointed at: a path that does not
\* exist, a file that is no plugin of the format, and plugin bundles.
\* "loose" is an effect whose host accepts any main-bus channel count.
PluginPaths == {"effect", "loose", "sidechain", "instrument", "analyzer", "monoOut"}

Paths == {"missing", "notplugin"} \cup PluginPaths

\* The paths the concurrent life-cycle specification constructs from: the
\* bus layout of a plugin plays no part in the life cycle.
LifecyclePaths == {"missing", "notplugin", "effect"}

NoDescription == "none"

\* juce::File::exists() of the stripped path.
FileExists(path) == path # "missing"

\* KnownPluginList::scanAndAddFile: the descriptions found in the file.
ScanAndAddFile(path) == IF path \in PluginPaths THEN <<path>> ELSE <<>>

(* ----------------------------- parameters ----------------------------- *)

\* Names are sequences of characters.
NameChars == {"a", "b"}

ShortNames == UNION {[1..n -> NameChars] : n \in 0..MaxNameLen}

\* A name one character longer than the truncation length, and what is
\* left of it at that length.
LongName == [i \in 1..(DisplayNameLength + 1) |-> "a"]

LongNameShown == [i \in 1..DisplayNameLength |-> "a"]

\* The full names a plugin may give its parameters.
ParameterNames == ShortNames \cup {LongName}

\* The parameter lists of the plugins the look-ups are made on; names may
\* repeat within a list.
ParameterLists == UNION {[1..n -> ParameterNames] : n \in 0..MaxParams}

\* The names a caller looks up.
LookupNames == ShortNames \cup {LongName, LongNameShown}

\* AudioProcessorParameter::getName(maximumStringLength): the name cut to
\* at most that many characters.
GetName(parameter, maximumStringLength) ==
    SubSeq(parameter, 1, IF Len(parameter) < maximumStringLength
                         THEN Len(parameter) ELSE maximumStringLength)

\* The parameter list of a newly created instance of a description.
DefaultParameters(desc) == << <<"a">>, <<"b">> >>

(* ------------------------------- buses -------------------------------- *)

Bus(en, ch) == [enabled |-> en, channels |-> ch]

\* Input buses of a freshly created instance of a description.
DefaultInputs(desc) ==
    CASE desc = "effect"     -> <<Bus(TRUE, 2)>>
      [] desc = "loose"      -> <<Bus(TRUE, 2)>>
      [] desc = "sidechain"  -> <<Bus(TRUE, 2), Bus(TRUE, 1)>>
      [] desc = "instrument" -> <<>>
      [] desc = "analyzer"   -> <<Bus(TRUE, 2)>>
      [] desc = "monoOut"    -> <<Bus(TRUE, 2)>>
      [] OTHER               -> <<>>

\* Output buses of a freshly created instance of a description.
DefaultOutputs(desc) ==
    CASE desc = "effect"     -> <<Bus(TRUE, 2)>>
      [] desc = "loose"      -> <<Bus(TRUE, 2), Bus(TRUE, 2)>>
      [] desc = "sidechain"  -> <<Bus(TRUE, 2)>>
      [] desc = "instrument" -> <<Bus(TRUE, 2)>>
      [] desc = "analyzer"   -> <<>>
      [] desc = "monoOut"    -> <<Bus(TRUE, 1)>>
      [] OTHER               -> <<>>

(* ------------------------------- state -------------------------------- *)

VARIABLES
    NUM_ACTIVE_EXTERNAL_PLUGINS, \* static int
    EXTERNAL_PLUGIN_MUTEX,       \* 0 when free, else the handle whose thread holds it
    messageManager,              \* TRUE iff the juce::MessageManager singleton exists
    heap,                        \* native instances: id -> NoObject or the live object
    created,                     \* number of native instances created so far
    terminated,                  \* std::terminate was called
    pc,                          \* per handle: position of its thread
    caller,                      \* per handle: who called reinstantiatePlugin
    op,                          \* per handle: the operation running or last run
    thrown,                      \* per handle: exception the last operation ended with
    pathToPluginFile,            \* per handle: member
    typesFound,                  \* per handle: constructor local, "unscanned" before the scan
    foundPluginDescription,      \* per handle: member
    pluginInstance,              \* per handle: member, 0 is the null unique_ptr
    savedState,                  \* per handle: reinstantiatePlugin local (juce::MemoryBlock)
    entry,                       \* per handle: history, what the running operation found at entry
    call                         \* the setNumChannels / process call just made, if any

vars == <<NUM_ACTIVE_EXTERNAL_PLUGINS, EXTERNAL_PLUGIN_MUTEX, messageManager, heap,
          created, terminated, pc, caller, op, thrown, pathToPluginFile, typesFound,
          foundPluginDescription, pluginInstance, savedState, entry, call>>

globalVars == <<NUM_ACTIVE_EXTERNAL_PLUGINS, EXTERNAL_PLUGIN_MUTEX, messageManager>>

ctorVars == <<pathToPluginFile, typesFound, foundPluginDescription>>

NoObject == [owner |-> 0]

NoCall == [op |-> "none"]

InstanceIds == 1..MaxCreates

Live(id) == id # 0 /\ heap[id] # NoObject

\* The live native instances that were created for handle h.
LiveOf(h) == {id \in InstanceIds : heap[id] # NoObject /\ heap[id].owner = h}

\* Handles whose unique_ptr holds an instance.
HoldingHandles == {h \in Handles : pluginInstance[h] # 0}

\* No operation is in progress on h.
AtRest(h) == pc[h] \in {"unborn", "idle", "destroyed"}

Quiescent == \A h \in Handles : AtRest(h)

\* What an operation records when it is entered: the instance the handle
\* held, that instance's parameter state, and the operation's own net
\* contribution to the counter so far.
EntryOf(h) ==
    [inst  |-> pluginInstance[h],
     state |-> IF Live(pluginInstance[h]) THEN heap[pluginInstance[h]].state ELSE DefaultParam,
     delta |-> 0]

\* The record of a handle on which no operation is running.
NoEntry == [inst |-> 0, state |-> DefaultParam, delta |-> 0]

Init ==
    /\ NUM_ACTIVE_EXTERNAL_PLUGINS = 0
    /\ EXTERNAL_PLUGIN_MUTEX = 0
    /\ messageManager = FALSE
    /\ heap = [id \in InstanceIds |-> NoObject]
    /\ created = 0
    /\ terminated = FALSE
    /\ pc = [h \in Handles |-> "unborn"]
    /\ caller = [h \in Handles |-> "none"]
    /\ op = [h \in Handles |-> "none"]
    /\ thrown = [h \in Handles |-> "none"]
    /\ pathToPluginFile = [h \in Handles |-> "none"]
    /\ typesFound = [h \in Handles |-> "unscanned"]
    /\ foundPluginDescription = [h \in Handles |-> NoDescription]
    /\ pluginInstance = [h \in Handles |-> 0]
    /\ savedState = [h \in Handles |-> <<>>]
    /\ entry = [h \in Handles |-> NoEntry]
    /\ call = NoCall

(* --------------------------- native instance -------------------------- *)

\* AudioPluginFormatManager::createPluginInstance, when it succeeds: a new
\* object with the description's default bus layout and parameter state.
NewInstance(h, desc) ==
    [owner   |-> h,
     state   |-> DefaultParam,
     calls   |-> <<>>,
     parameters |-> DefaultParameters(desc),
     inputs  |-> DefaultInputs(desc),
     outputs |-> DefaultOutputs(desc)]

\* AudioProcessor::getStateInformation: the state serialized into a block.
GetStateInformation(obj) == <<obj.state>>

\* AudioProcessor::setStateInformation(data, size): an empty block carries
\* no state.
SetStateInformation(obj, block) ==
    [obj EXCEPT !.state = IF Len(block) = 0 THEN @ ELSE block[1],
                !.calls = Append(@, "setStateInformation")]

\* AudioProcessor::reset(): clears processing state, keeps the parameters.
InstanceReset(obj) == [obj EXCEPT !.calls = Append(@, "reset")]

\* std::unique_ptr::reset(): deletes the object the pointer holds, if any.
HeapAfterDelete(id) == IF id = 0 THEN heap ELSE [heap EXCEPT ![id] = NoObject]

(* ----------------------------- constructor ---------------------------- *)

\* ExternalPlugin::ExternalPlugin, up to the file check: the GIL is
\* released and the MessageManager singleton is created if it is missing.
CtorBegin(h, path) ==
    /\ ~terminated
    /\ pc[h] \in {"unborn", "destroyed"}
    /\ messageManager' = TRUE
    /\ pathToPluginFile' = [pathToPluginFile EXCEPT ![h] = path]
    /\ typesFound' = [typesFound EXCEPT ![h] = "unscanned"]
    /\ foundPluginDescription' = [foundPluginDescription EXCEPT ![h] = NoDescription]
    /\ op' = [op EXCEPT ![h] = "ctor"]
    /\ thrown' = [thrown EXCEPT ![h] = "none"]
    /\ entry' = [entry EXCEPT ![h] = EntryOf(h)]
    /\ savedState' = [savedState EXCEPT ![h] = <<>>]
    /\ pc' = [pc EXCEPT ![h] = "c_load"]
    /\ call' = NoCall
    /\ UNCHANGED <<NUM_ACTIVE_EXTERNAL_PLUGINS, EXTERNAL_PLUGIN_MUTEX, heap, created,
                   terminated, caller, pluginInstance>>

\* The constructor from the file check to the call of reinstantiatePlugin:
\* a missing file throws before the scan, an empty scan throws after it.
\* An exception leaving the constructor means the handle never exists.
CtorLoad(h) ==
    /\ ~terminated
    /\ pc[h] = "c_load"
    /\ IF ~FileExists(pathToPluginFile[h])
       THEN /\ thrown' = [thrown EXCEPT ![h] = "plugin file not found"]
            /\ pc' = [pc EXCEPT ![h] = "unborn"]
            /\ UNCHANGED <<typesFound, foundPluginDescription, caller>>
       ELSE LET found == ScanAndAddFile(pathToPluginFile[h]) IN
            /\ typesFound' = [typesFound EXCEPT ![h] = found]
            /\ IF Len(found) # 0
               THEN /\ foundPluginDescription' =
                          [foundPluginDescription EXCEPT ![h] = found[1]]
                    /\ caller' = [caller EXCEPT ![h] = "ctor"]
                    /\ pc' = [pc EXCEPT ![h] = "r_begin"]
                    /\ UNCHANGED thrown
               ELSE /\ thrown' = [thrown EXCEPT ![h] = "unsupported plugin format or load failure"]
                    /\ pc' = [pc EXCEPT ![h] = "unborn"]
                    /\ UNCHANGED <<foundPluginDescription, caller>>
    /\ UNCHANGED <<globalVars, heap, created, terminated, op, pathToPluginFile,
                   pluginInstance, savedState, entry, call>>

(* ------------------------- reinstantiatePlugin ------------------------ *)

\* Lines 195-198: the state of an existing instance is saved.
RBegin(h) ==
    /\ ~terminated
    /\ pc[h] = "r_begin"
    /\ IF pluginInstance[h] # 0
       THEN /\ savedState' = [savedState EXCEPT
                                 ![h] = GetStateInformation(heap[pluginInstance[h]])]
            /\ pc' = [pc EXCEPT ![h] = "r_lock1"]
       ELSE /\ savedState' = [savedState EXCEPT ![h] = <<>>]
            /\ pc' = [pc EXCEPT ![h] = "r_lock2"]
    /\ UNCHANGED <<globalVars, heap, created, terminated, caller, op, thrown, ctorVars,
                   pluginInstance, entry, call>>

\* Line 200: std::lock_guard on EXTERNAL_PLUGIN_MUTEX.
RLock1(h) ==
    /\ ~terminated
    /\ pc[h] = "r_lock1"
    /\ EXTERNAL_PLUGIN_MUTEX = 0
    /\ EXTERNAL_PLUGIN_MUTEX' = h
    /\ pc' = [pc EXCEPT ![h] = "r_destroy"]
    /\ UNCHANGED <<NUM_ACTIVE_EXTERNAL_PLUGINS, messageManager, heap, created, terminated,
                   caller, op, thrown, ctorVars, pluginInstance, savedState, entry, call>>

\* RDestroy with release() in place of reset(): the pointer is nulled and
\* the old instance is never deleted.
RDestroyRelease(h) ==
    /\ ~terminated
    /\ pc[h] = "r_destroy"
    /\ pluginInstance' = [pluginInstance EXCEPT ![h] = 0]
    /\ pc' = [pc EXCEPT ![h] = "r_dec"]
    /\ UNCHANGED <<globalVars, heap, created, terminated, caller, op, thrown, ctorVars,
                   savedState, entry, call>>

\* Line 202: pluginInstance.reset() deletes the old instance.
RDestroy(h) ==
    /\ ~terminated
    /\ pc[h] = "r_destroy"
    /\ heap' = HeapAfterDelete(pluginInstance[h])
    /\ pluginInstance' = [pluginInstance EXCEPT ![h] = 0]
    /\ pc' = [pc EXCEPT ![h] = "r_dec"]
    /\ UNCHANGED <<globalVars, created, terminated, caller, op, thrown, ctorVars,
                   savedState, entry, call>>

\* Lines 203-204: the counter is decremented and the lock released.
RDec(h) ==
    /\ ~terminated
    /\ pc[h] = "r_dec"
    /\ NUM_ACTIVE_EXTERNAL_PLUGINS' = NUM_ACTIVE_EXTERNAL_PLUGINS - 1
    /\ entry' = [entry EXCEPT ![h].delta = @ - 1]
    /\ EXTERNAL_PLUGIN_MUTEX' = 0
    /\ pc' = [pc EXCEPT ![h] = "r_lock2"]
    /\ UNCHANGED <<messageManager, heap, created, terminated, caller, op, thrown,
                   ctorVars, pluginInstance, savedState, call>>

\* RLock2 without the lock: the thread goes on whether or not the mutex
\* is free.
RLock2Unguarded(h) ==
    /\ ~terminated
    /\ pc[h] = "r_lock2"
    /\ EXTERNAL_PLUGIN_MUTEX' = h
    /\ pc' = [pc EXCEPT ![h] = "r_create"]
    /\ UNCHANGED <<NUM_ACTIVE_EXTERNAL_PLUGINS, messageManager, heap, created, terminated,
                   caller, op, thrown, ctorVars, pluginInstance, savedState, entry, call>>

\* Line 209: the second std::lock_guard on EXTERNAL_PLUGIN_MUTEX.
RLock2(h) ==
    /\ ~terminated
    /\ pc[h] = "r_lock2"
    /\ EXTERNAL_PLUGIN_MUTEX = 0
    /\ EXTERNAL_PLUGIN_MUTEX' = h
    /\ pc' = [pc EXCEPT ![h] = "r_create"]
    /\ UNCHANGED <<NUM_ACTIVE_EXTERNAL_PLUGINS, messageManager, heap, created, terminated,
                   caller, op, thrown, ctorVars, pluginInstance, savedState, entry, call>>

\* Where an exception thrown by reinstantiatePlugin takes the thread: out
\* of the constructor (the handle never exists), back to the direct caller
\* (the handle lives on without an instance), or, out of the noexcept
\* reset(), to std::terminate.
AfterThrow(h) ==
    CASE caller[h] = "ctor"  -> "unborn"
      [] caller[h] = "reset" -> "terminated"
      [] OTHER               -> "idle"

\* RCreate with the counter incremented before the null check: a failed
\* creation is counted.
RCreateCountsFirst(h) ==
    /\ ~terminated
    /\ pc[h] = "r_create"
    /\ \/ /\ created < MaxCreates
          /\ created' = created + 1
          /\ heap' = [HeapAfterDelete(pluginInstance[h]) EXCEPT
                         ![created + 1] = NewInstance(h, foundPluginDescription[h])]
          /\ pluginInstance' = [pluginInstance EXCEPT ![h] = created + 1]
          /\ pc' = [pc EXCEPT ![h] = "r_inc"]
          /\ UNCHANGED <<globalVars, thrown, terminated, savedState, entry>>
       \/ /\ heap' = HeapAfterDelete(pluginInstance[h])
          /\ pluginInstance' = [pluginInstance EXCEPT ![h] = 0]
          /\ thrown' = [thrown EXCEPT ![h] = "createPluginInstance failed"]
          /\ EXTERNAL_PLUGIN_MUTEX' = 0
          /\ pc' = [pc EXCEPT ![h] = AfterThrow(h)]
          /\ terminated' = (caller[h] = "reset")
          /\ savedState' = [savedState EXCEPT ![h] = <<>>]
          /\ entry' = [entry EXCEPT ![h] = NoEntry]
          /\ NUM_ACTIVE_EXTERNAL_PLUGINS' = NUM_ACTIVE_EXTERNAL_PLUGINS + 1
          /\ UNCHANGED <<messageManager, created>>
    /\ UNCHANGED <<caller, op, ctorVars, call>>

\* Lines 210-218: createPluginInstance and the assignment of its result to
\* the unique_ptr (which deletes what the pointer held).  The native call
\* either yields a new instance or yields null; null throws, and unwinding
\* releases the lock without touching the counter.
RCreate(h) ==
    /\ ~terminated
    /\ pc[h] = "r_create"
    /\ \/ /\ created < MaxCreates
          /\ created' = created + 1
          /\ heap' = [HeapAfterDelete(pluginInstance[h]) EXCEPT
                         ![created + 1] = NewInstance(h, foundPluginDescription[h])]
          /\ pluginInstance' = [pluginInstance EXCEPT ![h] = created + 1]
          /\ pc' = [pc EXCEPT ![h] = "r_inc"]
          /\ UNCHANGED <<globalVars, thrown, terminated, savedState, entry>>
       \/ /\ heap' = HeapAfterDelete(pluginInstance[h])
          /\ pluginInstance' = [pluginInstance EXCEPT ![h] = 0]
          /\ thrown' = [thrown EXCEPT ![h] = "createPluginInstance failed"]
          /\ EXTERNAL_PLUGIN_MUTEX' = 0
          /\ pc' = [pc EXCEPT ![h] = AfterThrow(h)]
          /\ terminated' = (caller[h] = "reset")
          /\ savedState' = [savedState EXCEPT ![h] = <<>>]
          /\ entry' = [entry EXCEPT ![h] = NoEntry]
          /\ UNCHANGED <<NUM_ACTIVE_EXTERNAL_PLUGINS, messageManager, created>>
    /\ UNCHANGED <<caller, op, ctorVars, call>>

\* RInc without the increment of line 220.
RIncForgotten(h) ==
    /\ ~terminated
    /\ pc[h] = "r_inc"
    /\ EXTERNAL_PLUGIN_MUTEX' = 0
    /\ pc' = [pc EXCEPT ![h] = "r_restore"]
    /\ UNCHANGED <<NUM_ACTIVE_EXTERNAL_PLUGINS, messageManager, heap, created, terminated,
                   caller, op, thrown, ctorVars, pluginInstance, savedState, entry, call>>

\* Lines 220-221: the counter is incremented and the lock released.
RInc(h) ==
    /\ ~terminated
    /\ pc[h] = "r_inc"
    /\ NUM_ACTIVE_EXTERNAL_PLUGINS' = NUM_ACTIVE_EXTERNAL_PLUGINS + 1
    /\ entry' = [entry EXCEPT ![h].delta = @ + 1]
    /\ EXTERNAL_PLUGIN_MUTEX' = 0
    /\ pc' = [pc EXCEPT ![h] = "r_restore"]
    /\ UNCHANGED <<messageManager, heap, created, terminated, caller, op, thrown,
                   ctorVars, pluginInstance, savedState, call>>

\* RRestore applying an empty block in place of savedState.
RRestoreEmptyBlock(h) ==
    /\ ~terminated
    /\ pc[h] = "r_restore"
    /\ heap' = [heap EXCEPT ![pluginInstance[h]] =
                   InstanceReset(SetStateInformation(@, <<>>))]
    /\ savedState' = [savedState EXCEPT ![h] = <<>>]
    /\ entry' = [entry EXCEPT ![h] = NoEntry]
    /\ pc' = [pc EXCEPT ![h] = "idle"]
    /\ UNCHANGED <<globalVars, created, terminated, caller, op, thrown, ctorVars,
                   pluginInstance, call>>

\* Lines 223-225: the saved state is applied to the new instance, then the
\* instance's own reset() is called; reinstantiatePlugin returns.
RRestore(h) ==
    /\ ~terminated
    /\ pc[h] = "r_restore"
    /\ heap' = [heap EXCEPT ![pluginInstance[h]] =
                   InstanceReset(SetStateInformation(@, savedState[h]))]
    /\ savedState' = [savedState EXCEPT ![h] = <<>>]
    /\ entry' = [entry EXCEPT ![h] = NoEntry]
    /\ pc' = [pc EXCEPT ![h] = "idle"]
    /\ UNCHANGED <<globalVars, created, terminated, caller, op, thrown, ctorVars,
                   pluginInstance, call>>

\* A direct call of the public reinstantiatePlugin() on a constructed handle.
Reinstantiate(h) ==
    /\ ~terminated
    /\ pc[h] = "idle"
    /\ op' = [op EXCEPT ![h] = "reinstantiatePlugin"]
    /\ caller' = [caller EXCEPT ![h] = "direct"]
    /\ thrown' = [thrown EXCEPT ![h] = "none"]
    /\ entry' = [entry EXCEPT ![h] = EntryOf(h)]
    /\ pc' = [pc EXCEPT ![h] = "r_begin"]
    /\ call' = NoCall
    /\ UNCHANGED <<globalVars, heap, created, terminated, ctorVars, pluginInstance,
                   savedState>>

\* ExternalPlugin::reset(): with an instance, the instance's reset() and
\* then reinstantiatePlugin(); without one, nothing.
Reset(h) ==
    /\ ~terminated
    /\ pc[h] = "idle"
    /\ op' = [op EXCEPT ![h] = "reset"]
    /\ thrown' = [thrown EXCEPT ![h] = "none"]
    /\ IF pluginInstance[h] # 0
       THEN /\ heap' = [heap EXCEPT ![pluginInstance[h]] = InstanceReset(@)]
            /\ entry' = [entry EXCEPT ![h] = EntryOf(h)]
            /\ caller' = [caller EXCEPT ![h] = "reset"]
            /\ pc' = [pc EXCEPT ![h] = "r_begin"]
       ELSE UNCHANGED <<heap, entry, caller, pc>>
    /\ call' = NoCall
    /\ UNCHANGED <<globalVars, created, terminated, ctorVars, pluginInstance,
                   savedState>>

(* ------------------------------ destructor ---------------------------- *)

\* Line 182: the destructor takes the lock.
DLock(h) ==
    /\ ~terminated
    /\ pc[h] = "idle"
    /\ EXTERNAL_PLUGIN_MUTEX = 0
    /\ EXTERNAL_PLUGIN_MUTEX' = h
    /\ op' = [op EXCEPT ![h] = "dtor"]
    /\ thrown' = [thrown EXCEPT ![h] = "none"]
    /\ entry' = [entry EXCEPT ![h] = EntryOf(h)]
    /\ pc' = [pc EXCEPT ![h] = "d_destroy"]
    /\ call' = NoCall
    /\ UNCHANGED <<NUM_ACTIVE_EXTERNAL_PLUGINS, messageManager, heap, created, terminated,
                   caller, ctorVars, pluginInstance, savedState>>

\* Line 183: pluginInstance.reset().
DDestroy(h) ==
    /\ ~terminated
    /\ pc[h] = "d_destroy"
    /\ heap' = HeapAfterDelete(pluginInstance[h])
    /\ pluginInstance' = [pluginInstance EXCEPT ![h] = 0]
    /\ pc' = [pc EXCEPT ![h] = "d_dec"]
    /\ UNCHANGED <<globalVars, created, terminated, caller, op, thrown, ctorVars,
                   savedState, entry, call>>

\* Lines 184-190: the counter is decremented, whatever the handle held; at
\* zero the MessageManager singleton is deleted; the lock is released.
DDec(h) ==
    /\ ~terminated
    /\ pc[h] = "d_dec"
    /\ NUM_ACTIVE_EXTERNAL_PLUGINS' = NUM_ACTIVE_EXTERNAL_PLUGINS - 1
    /\ entry' = [entry EXCEPT ![h] = NoEntry]
    /\ messageManager' = IF NUM_ACTIVE_EXTERNAL_PLUGINS' = 0 THEN FALSE ELSE messageManager
    /\ EXTERNAL_PLUGIN_MUTEX' = 0
    /\ pc' = [pc EXCEPT ![h] = "destroyed"]
    /\ UNCHANGED <<heap, created, terminated, caller, op, thrown, ctorVars,
                   pluginInstance, savedState, call>>

(* ------------------------------ parameters ---------------------------- *)

\* juce::AudioProcessorParameter::setValue through the raw_value property
\* of a parameter of the handle's live instance.
SetValue(h, v) ==
    /\ ~terminated
    /\ pc[h] = "idle"
    /\ pluginInstance[h] # 0
    /\ heap[pluginInstance[h]].state # v
    /\ heap' = [heap EXCEPT ![pluginInstance[h]].state = v]
    /\ op' = [op EXCEPT ![h] = "setValue"]
    /\ thrown' = [thrown EXCEPT ![h] = "none"]
    /\ call' = NoCall
    /\ UNCHANGED <<globalVars, created, terminated, pc, caller, ctorVars,
                   pluginInstance, savedState, entry>>

(* -------------------------- channel negotiation ----------------------- *)

\* A bus list with every bus of index >= 1 (here: position >= 2) disabled.
DisableFromSecond(buses) ==
    [i \in 1..Len(buses) |-> IF i >= 2 THEN [buses[i] EXCEPT !.enabled = FALSE] ELSE buses[i]]

\* AudioProcessor::disableNonMainBuses(), line 232.
DisableNonMainBuses(obj) ==
    [obj EXCEPT !.inputs = DisableFromSecond(@), !.outputs = DisableFromSecond(@)]

\* The two loops of lines 245-252: getBus(isInput, i)->enable(false), i >= 1.
DisableOtherBuses(obj) ==
    [obj EXCEPT !.inputs = DisableFromSecond(@), !.outputs = DisableFromSecond(@)]

\* Bus::setNumberOfChannels on the first bus of a list: the plugin accepts
\* the count or keeps the one it had.
SetNumberOfChannels(buses, n, accepted) ==
    IF accepted THEN [buses EXCEPT ![1].channels = n] ELSE buses

\* Bus::getNumberOfChannels of the main bus.
MainChannels(buses) == buses[1].channels

\* What setNumChannels and process record of the call just made: the
\* request, how it ended, and the counter and instance found at entry.
AudioCall(h, name, n, outcome, error, ub) ==
    [op |-> name, handle |-> h, numChannels |-> n, outcome |-> outcome, error |-> error,
     ub |-> ub, counterAtEntry |-> NUM_ACTIVE_EXTERNAL_PLUGINS,
     instanceAtEntry |-> pluginInstance[h], heapAtEntry |-> {id \in InstanceIds : Live(id)}]

\* ExternalPlugin::setNumChannels(numChannels).  A plugin with a main input
\* bus but no output bus makes line 256 call through the null mainOutputBus:
\* undefined behaviour, which a build may turn into a crash, a return or the
\* exception of line 263.
SetNumChannels(h, n) ==
    /\ ~terminated
    /\ pc[h] = "idle"
    /\ op' = [op EXCEPT ![h] = "setNumChannels"]
    /\ thrown' = [thrown EXCEPT ![h] = "none"]
    /\ IF pluginInstance[h] = 0
       THEN /\ call' = AudioCall(h, "setNumChannels", n, "returned", "none", "none")
            /\ UNCHANGED <<heap, terminated>>
       ELSE LET obj == DisableNonMainBuses(heap[pluginInstance[h]]) IN
            IF Len(obj.inputs) = 0
            THEN /\ heap' = [heap EXCEPT ![pluginInstance[h]] = obj]
                 /\ call' = AudioCall(h, "setNumChannels", n, "threw",
                                      "does not accept audio input", "none")
                 /\ UNCHANGED terminated
            ELSE \E inAccepted \in BOOLEAN :
                 LET withIn == [DisableOtherBuses(obj) EXCEPT
                                   !.inputs = SetNumberOfChannels(@, n, inAccepted)] IN
                 IF Len(obj.outputs) = 0
                 THEN \E outcome \in {"crashed", "returned", "threw"} :
                      /\ heap' = [heap EXCEPT ![pluginInstance[h]] = withIn]
                      /\ call' = AudioCall(h, "setNumChannels", n, outcome,
                                           IF outcome = "threw" THEN "does not support"
                                           ELSE "none", "null mainOutputBus")
                      /\ terminated' = (outcome = "crashed")
                 ELSE \E outAccepted \in BOOLEAN :
                      LET after == [withIn EXCEPT
                                       !.outputs = SetNumberOfChannels(@, n, outAccepted)] IN
                      /\ heap' = [heap EXCEPT ![pluginInstance[h]] = after]
                      /\ call' = IF \/ MainChannels(after.inputs) # n
                                    \/ MainChannels(after.outputs) # n
                                 THEN AudioCall(h, "setNumChannels", n, "threw",
                                                "does not support", "none")
                                 ELSE AudioCall(h, "setNumChannels", n, "returned",
                                                "none", "none")
                      /\ UNCHANGED terminated
    /\ UNCHANGED <<globalVars, created, pc, caller, ctorVars, pluginInstance,
                   savedState, entry>>

(* ------------------------------- process ------------------------------ *)

\* Sum of integers over a sequence.
RECURSIVE SumSeq(_)
SumSeq(q) == IF q = <<>> THEN 0 ELSE q[1] + SumSeq(Tail(q))

\* Lines 320-329: the channels of the enabled input buses, summed.
PluginBufferChannelCount(obj) ==
    SumSeq([i \in 1..Len(obj.inputs) |->
               IF obj.inputs[i].enabled THEN obj.inputs[i].channels ELSE 0])

\* AudioProcessor::getMainBusNumInputChannels / ...OutputChannels.
MainBusNumChannels(buses) == IF Len(buses) = 0 THEN 0 ELSE buses[1].channels

\* outputBlock.getChannelPointer(i - 1): a channel buffer of the caller.
CallerChannel(i) == [kind |-> "caller", index |-> i]

\* The buffer of the local vector dummyChannel of the k-th pass of the loop
\* of lines 343-348; it is freed when the pass ends.
DummyChannel(k) == [kind |-> "dummyChannel", index |-> k]

\* The buffer of the copy push_back makes into dummyChannels in the k-th
\* pass; it lives until process() returns.
DummyChannelsElement(k) == [kind |-> "dummyChannels", index |-> k]

\* channelPointers after lines 333-348 (slot i here is index i - 1 there):
\* the caller's channels first, then dummyChannel.data() of each pass.
ChannelPointers(numChannels, count) ==
    [i \in 1..count |-> IF i <= numChannels THEN CallerChannel(i)
                        ELSE DummyChannel(i - numChannels)]

\* The buffers that are allocated when line 377 is reached, with their
\* sample lengths: the caller's channels and the elements of dummyChannels.
AllocatedAtCall(numChannels, count, numSamples) ==
    {[buffer |-> CallerChannel(i), length |-> numSamples] : i \in 1..numChannels}
        \cup {[buffer |-> DummyChannelsElement(k), length |-> numSamples] :
                 k \in 1..(count - numChannels)}

\* The indices at which lines 335-348 write channelPointers: one per
\* channel of the block, then the ones from there up to the slot count.
WrittenIndices(numChannels, count) ==
    (0..(numChannels - 1)) \cup (numChannels..(count - 1))

\* What process() records of the call just made.
ProcessCall(h, numChannels, numSamples, outcome, error, ub, count, invoked) ==
    [op |-> "process", handle |-> h, numChannels |-> numChannels,
     inPlace |-> error # "separate input and output blocks",
     numSamples |-> numSamples, outcome |-> outcome, error |-> error, ub |-> ub,
     pluginBufferChannelCount |-> count,
     invoked |-> invoked,
     view |-> IF invoked THEN ChannelPointers(numChannels, count) ELSE <<>>,
     allocated |-> IF invoked THEN AllocatedAtCall(numChannels, count, numSamples) ELSE {},
     samplesModified |-> invoked,
     written |-> IF pluginInstance[h] # 0 /\ error # "separate input and output blocks"
                 THEN WrittenIndices(numChannels, count) ELSE {},
     counterAtEntry |-> NUM_ACTIVE_EXTERNAL_PLUGINS,
     instanceAtEntry |-> pluginInstance[h],
     heapAtEntry |-> {id \in InstanceIds : Live(id)}]

\* ExternalPlugin::process(context) on a block of numChannels channels of
\* numSamples samples.  Two places have undefined behaviour: the loop of
\* line 335 writes channelPointers[i] for every channel of the block, past
\* the end of the vector when the block has more channels than
\* pluginBufferChannelCount; and processBlock is handed the pointers of
\* the freed dummyChannel buffers.  Either may crash the process or go on.
Process(h, separate, numChannels, numSamples) ==
    /\ ~terminated
    /\ pc[h] = "idle"
    /\ op' = [op EXCEPT ![h] = "process"]
    /\ thrown' = [thrown EXCEPT ![h] = "none"]
    /\ IF pluginInstance[h] = 0
       THEN /\ call' = ProcessCall(h, numChannels, numSamples, "returned", "none",
                                   "none", 0, FALSE)
            /\ UNCHANGED terminated
       ELSE IF separate
       THEN /\ call' = ProcessCall(h, numChannels, numSamples, "threw",
                                   "separate input and output blocks", "none", 0, FALSE)
            /\ UNCHANGED terminated
       ELSE LET obj == heap[pluginInstance[h]]
                count == PluginBufferChannelCount(obj)
                overflow == numChannels > count
                inputMismatch == MainBusNumChannels(obj.inputs) # numChannels
                outputMismatch == MainBusNumChannels(obj.outputs) < numChannels
                dangling == ~inputMismatch /\ ~outputMismatch /\ count > numChannels
                ub == IF overflow THEN "write past the end of channelPointers"
                      ELSE IF dangling THEN "freed dummyChannel passed to processBlock"
                      ELSE "none"
            IN  \E crash \in BOOLEAN :
                /\ crash => ub # "none"
                /\ terminated' = crash
                /\ call' =
                     IF crash
                     THEN ProcessCall(h, numChannels, numSamples, "crashed", "none", ub,
                                      count, ~overflow)
                     ELSE IF inputMismatch
                     THEN ProcessCall(h, numChannels, numSamples, "threw",
                                      "input channel mismatch", ub, count, FALSE)
                     ELSE IF outputMismatch
                     THEN ProcessCall(h, numChannels, numSamples, "threw",
                                      "output channel mismatch", ub, count, FALSE)
                     ELSE ProcessCall(h, numChannels, numSamples, "returned", "none", ub,
                                      count, TRUE)
    /\ UNCHANGED <<globalVars, heap, created, pc, caller, ctorVars, pluginInstance,
                   savedState, entry>>

(* --------------------------- parameter look-up ------------------------ *)

\* The loop of lines 391-395 from position i on: the position of the first
\* parameter at or after i whose name at length 512 is the name asked
\* for, 0 (nullptr) when the list ends first.
RECURSIVE ScanParameters(_, _, _)
ScanParameters(parameters, name, i) ==
    IF i > Len(parameters) THEN 0
    ELSE IF GetName(parameters[i], DisplayNameLength) = name THEN i
    ELSE ScanParameters(parameters, name, i + 1)

\* The scan going on after a match: the last matching position is kept.
RECURSIVE ScanParametersToEnd(_, _, _, _)
ScanParametersToEnd(parameters, name, i, found) ==
    IF i > Len(parameters) THEN found
    ELSE ScanParametersToEnd(parameters, name, i + 1,
             IF GetName(parameters[i], DisplayNameLength) = name THEN i ELSE found)

\* FindParameter without the return inside the loop.
FindParameterLast(parameters, name) == ScanParametersToEnd(parameters, name, 1, 0)

\* Lines 391-396: what getParameter returns for a parameter list.
FindParameter(parameters, name) == ScanParameters(parameters, name, 1)

\* ExternalPlugin::getParameter(name).  Without an instance line 391 calls
\* getParameters() through the null unique_ptr: undefined behaviour, a
\* crash or a return of nullptr.
GetParameter(h, name) ==
    /\ ~terminated
    /\ pc[h] = "idle"
    /\ op' = [op EXCEPT ![h] = "getParameter"]
    /\ thrown' = [thrown EXCEPT ![h] = "none"]
    /\ IF pluginInstance[h] = 0
       THEN \E crash \in BOOLEAN :
            /\ terminated' = crash
            /\ call' = [op |-> "getParameter", handle |-> h, name |-> name,
                        outcome |-> IF crash THEN "crashed" ELSE "returned",
                        result |-> 0, ub |-> "null pluginInstance",
                        instanceAtEntry |-> 0, objectAtEntry |-> NoObject]
       ELSE /\ call' = [op |-> "getParameter", handle |-> h, name |-> name,
                        outcome |-> "returned",
                        result |-> FindParameter(heap[pluginInstance[h]].parameters, name),
                        ub |-> "none",
                        instanceAtEntry |-> pluginInstance[h],
                        objectAtEntry |-> heap[pluginInstance[h]]]
            /\ UNCHANGED terminated
    /\ UNCHANGED <<globalVars, heap, created, pc, caller, ctorVars, pluginInstance,
                   savedState, entry>>

(* --------------------------- specifications --------------------------- *)

\* One step of the constructor or of the destructor of handle h, the
\* constructor being given a path of the set paths.
ConstructDestroyStep(h, paths) ==
    \/ \E path \in paths : CtorBegin(h, path)
    \/ CtorLoad(h)
    \/ RBegin(h)
    \/ RLock2(h)
    \/ RCreate(h)
    \/ RInc(h)
    \/ RRestore(h)
    \/ DLock(h)
    \/ DDestroy(h)
    \/ DDec(h)

\* One step of any life-cycle operation of handle h.
LifecycleStep(h, paths) ==
    \/ ConstructDestroyStep(h, paths)
    \/ RLock1(h)
    \/ RDestroy(h)
    \/ RDec(h)
    \/ Reinstantiate(h)
    \/ Reset(h)
    \/ \E v \in ParamValues : SetValue(h, v)

\* One audio call on handle h.
AudioStep(h) ==
    \/ \E n \in 1..MaxChannels : SetNumChannels(h, n)
    \/ \E separate \in BOOLEAN, n \in 1..MaxChannels, len \in 1..MaxSamples :
          Process(h, separate, n, len)

\* Handles constructed, reinstantiated, reset and destroyed concurrently.
\* Nothing runs once std::terminate or a crash has ended the process.
Next == \E h \in Handles : LifecycleStep(h, LifecyclePaths)

Spec == Init /\ [][Next]_vars

\* Handles only constructed and destroyed, concurrently.
NextCD == \E h \in Handles : ConstructDestroyStep(h, LifecyclePaths)

SpecCD == Init /\ [][NextCD]_vars

\* One handle taken through every operation by one thread, over every
\* kind of plugin file.
NextAudio == LifecycleStep(1, Paths) \/ AudioStep(1)

SpecAudio == Init /\ [][NextAudio]_vars

\* The state in which the constructor has returned for handle 1 on the
\* plugin file "effect", the plugin having the parameter list parameters.
Constructed(parameters) ==
    /\ NUM_ACTIVE_EXTERNAL_PLUGINS = 1
    /\ EXTERNAL_PLUGIN_MUTEX = 0
    /\ messageManager = TRUE
    /\ heap = [id \in InstanceIds |->
                  IF id = 1
                  THEN [InstanceReset(SetStateInformation(NewInstance(1, "effect"), <<>>))
                           EXCEPT !.parameters = parameters]
                  ELSE NoObject]
    /\ created = 1
    /\ terminated = FALSE
    /\ pc = [h \in Handles |-> IF h = 1 THEN "idle" ELSE "unborn"]
    /\ caller = [h \in Handles |-> IF h = 1 THEN "ctor" ELSE "none"]
    /\ op = [h \in Handles |-> IF h = 1 THEN "ctor" ELSE "none"]
    /\ thrown = [h \in Handles |-> "none"]
    /\ pathToPluginFile = [h \in Handles |-> IF h = 1 THEN "effect" ELSE "none"]
    /\ typesFound = [h \in Handles |-> IF h = 1 THEN <<"effect">> ELSE "unscanned"]
    /\ foundPluginDescription = [h \in Handles |-> IF h = 1 THEN "effect" ELSE NoDescription]
    /\ pluginInstance = [h \in Handles |-> IF h = 1 THEN 1 ELSE 0]
    /\ savedState = [h \in Handles |-> <<>>]
    /\ entry = [h \in Handles |-> NoEntry]
    /\ call = NoCall

\* Parameter look-ups and parameter writes on one constructed handle, over
\* every parameter list a plugin may have.
InitParam == \E parameters \in ParameterLists : Constructed(parameters)

NextParam ==
    \/ \E name \in LookupNames : GetParameter(1, name)
    \/ \E v \in ParamValues : SetValue(1, v)

SpecParam == InitParam /\ [][NextParam]_vars

(* ------------------------------- claims ------------------------------- *)

\* C1 (SpecCD): over every interleaving of constructions, succeeding or
\* throwing, and destructions of constructed handles, the counter
\* NUM_ACTIVE_EXTERNAL_PLUGINS is never negative.
C1_CounterNeverNegative == NUM_ACTIVE_EXTERNAL_PLUGINS >= 0

\* C1 witness: a handle has been constructed and destroyed, the
\* construction of another threw in createPluginInstance, and the counter
\* is back at zero.
C1_Witness ==
    /\ NUM_ACTIVE_EXTERNAL_PLUGINS = 0
    /\ \E h \in Handles : pc[h] = "destroyed"
    /\ \E g \in Handles : pc[g] = "unborn" /\ thrown[g] = "createPluginInstance failed"

\* C2: whenever no constructor, destructor or reinstantiatePlugin call is
\* in progress, the MessageManager singleton exists if and only if the
\* counter is positive.
C2_SingletonIffActive ==
    Quiescent => (messageManager <=> NUM_ACTIVE_EXTERNAL_PLUGINS > 0)

\* C3: whenever no operation is in progress, the counter equals the number
\* of handles that hold a live native instance.
C3_CounterEqualsLiveHandles ==
    Quiescent => NUM_ACTIVE_EXTERNAL_PLUGINS = Cardinality(HoldingHandles)

\* C4: a step by which an exception leaves the constructor of h finds that
\* the constructor has added nothing to the counter, adds nothing itself,
\* and leaves h without a native instance; when the exception is the one
\* for the missing file, scanAndAddFile has not been called.
C4_FailedConstructionLeavesNoTrace ==
    [][\A h \in Handles :
          (op[h] = "ctor" /\ pc[h] # "unborn" /\ pc'[h] = "unborn") =>
              /\ thrown'[h] \in {"plugin file not found",
                                 "unsupported plugin format or load failure",
                                 "createPluginInstance failed"}
              /\ entry[h].delta = 0
              /\ NUM_ACTIVE_EXTERNAL_PLUGINS' = NUM_ACTIVE_EXTERNAL_PLUGINS
              /\ pluginInstance'[h] = 0
              /\ \A id \in InstanceIds : heap'[id] # NoObject => heap'[id].owner # h
              /\ thrown'[h] = "plugin file not found" => typesFound'[h] = "unscanned"
      ]_vars

\* C4 witness: a constructor has thrown because createPluginInstance
\* returned null while another handle was alive and counted.
C4_Witness ==
    \E h \in Handles :
        /\ pc[h] = "unborn"
        /\ op[h] = "ctor"
        /\ thrown[h] = "createPluginInstance failed"
        /\ NUM_ACTIVE_EXTERNAL_PLUGINS = 1

\* C5: reinstantiatePlugin on a handle holding an instance with state S
\* captures S while the old instance is alive, and returns with the old
\* instance destroyed, a different, newly created instance in its place
\* whose state is S, on which setStateInformation and then reset were
\* called, and with its own net change of the counter being zero.
C5_ReinstantiateRoundTrip ==
    [][\A h \in Handles :
          /\ (pc[h] = "r_begin" /\ pc'[h] = "r_lock1") =>
                 /\ Live(pluginInstance[h])
                 /\ savedState'[h] = <<entry[h].state>>
          /\ (pc[h] = "r_restore" /\ pc'[h] = "idle" /\ entry[h].inst # 0) =>
                 /\ savedState[h] = <<entry[h].state>>
                 /\ pluginInstance'[h] \notin {0, entry[h].inst}
                 /\ heap'[entry[h].inst] = NoObject
                 /\ heap[pluginInstance'[h]].calls = <<>>
                 /\ heap'[pluginInstance'[h]].calls = <<"setStateInformation", "reset">>
                 /\ heap'[pluginInstance'[h]].state = entry[h].state
                 /\ entry[h].delta = 0
                 /\ NUM_ACTIVE_EXTERNAL_PLUGINS' = NUM_ACTIVE_EXTERNAL_PLUGINS
      ]_vars

\* C5 witness: a reinstantiation or reset has returned normally and the
\* new instance carries a parameter state other than the default.
C5_Witness ==
    \E h \in Handles :
        /\ pc[h] = "idle"
        /\ op[h] \in {"reinstantiatePlugin", "reset"}
        /\ thrown[h] = "none"
        /\ pluginInstance[h] = 2
        /\ heap[2].state # DefaultParam
        /\ heap[2].calls = <<"setStateInformation", "reset">>

\* C6: a handle never has more than one live native instance, the one its
\* unique_ptr holds, and has none when createPluginInstance is called.
C6_AtMostOneLiveInstance ==
    \A h \in Handles :
        /\ Cardinality(LiveOf(h)) <= 1
        /\ LiveOf(h) \subseteq {pluginInstance[h]}
        /\ pc[h] = "r_create" => LiveOf(h) = {}

\* C6 witness: a handle that held an instance is about to call
\* createPluginInstance inside reinstantiatePlugin.
C6_Witness ==
    \E h \in Handles : pc[h] = "r_create" /\ entry[h].inst # 0

\* C7 (SpecAudio): setNumChannels(n) on a handle with a live instance either
\* returns with both main buses at n channels and every other bus
\* disabled, or throws because there is no main input bus or a main bus
\* is not at n channels; it leaves the counter and the instances alone.
C7_SetNumChannelsTwoOutcomes ==
    (call.op = "setNumChannels" /\ call.instanceAtEntry # 0) =>
        LET obj == heap[pluginInstance[call.handle]] IN
        /\ call.outcome \in {"returned", "threw"}
        /\ call.outcome = "returned" =>
               /\ Len(obj.inputs) > 0 /\ Len(obj.outputs) > 0
               /\ MainChannels(obj.inputs) = call.numChannels
               /\ MainChannels(obj.outputs) = call.numChannels
               /\ \A i \in 2..Len(obj.inputs) : ~obj.inputs[i].enabled
               /\ \A i \in 2..Len(obj.outputs) : ~obj.outputs[i].enabled
        /\ call.outcome = "threw" =>
               \/ Len(obj.inputs) = 0
               \/ MainBusNumChannels(obj.inputs) # call.numChannels
               \/ MainBusNumChannels(obj.outputs) # call.numChannels
        /\ NUM_ACTIVE_EXTERNAL_PLUGINS = call.counterAtEntry
        /\ pluginInstance[call.handle] = call.instanceAtEntry
        /\ {id \in InstanceIds : Live(id)} = call.heapAtEntry

\* C8 (SpecAudio): process() on an in-place block whose channel count is not
\* the main input channel count throws the channel-mismatch error without
\* having called processBlock or touched the caller's samples.
C8_MismatchAlwaysThrows ==
    (/\ call.op = "process"
     /\ call.instanceAtEntry # 0
     /\ call.inPlace
     /\ call.numChannels # MainBusNumChannels(heap[call.instanceAtEntry].inputs)) =>
        /\ call.outcome = "threw"
        /\ call.error = "input channel mismatch"
        /\ ~call.invoked
        /\ ~call.samplesModified

\* C9: every step that writes the counter, or creates or destroys a native
\* instance, or changes what a handle's unique_ptr holds, is taken by the
\* thread that holds EXTERNAL_PLUGIN_MUTEX; and at most one thread is
\* between acquiring and releasing it.
C9_MutationsUnderMutex ==
    [][\A h \in Handles :
          (/\ pc'[h] # pc[h]
           /\ \/ NUM_ACTIVE_EXTERNAL_PLUGINS' # NUM_ACTIVE_EXTERNAL_PLUGINS
              \/ created' # created
              \/ pluginInstance' # pluginInstance
              \/ \E id \in InstanceIds : (heap'[id] = NoObject) # (heap[id] = NoObject)) =>
              /\ EXTERNAL_PLUGIN_MUTEX = h
              /\ \A g \in Handles \ {h} :
                     pc[g] \notin {"r_destroy", "r_dec", "r_create", "r_inc",
                                   "d_destroy", "d_dec"}
      ]_vars

\* C9 witness: one thread is inside the second critical section of
\* reinstantiatePlugin, about to increment the counter, while another
\* waits for the mutex.
C9_Witness ==
    \E h, g \in Handles :
        /\ h # g
        /\ pc[h] = "r_inc"
        /\ pc[g] \in {"r_lock1", "r_lock2"}

\* C10 (SpecAudio): when processBlock is invoked the view has
\* pluginBufferChannelCount slots, the first ones are the caller's
\* channels, and each further slot points to a scratch buffer of its own,
\* of the block's length, that is allocated at the time of the call.
C10_ViewBuffersAlive ==
    (call.op = "process" /\ call.invoked) =>
        /\ Len(call.view) = PluginBufferChannelCount(heap[call.instanceAtEntry])
        /\ \A i \in 1..Len(call.view) :
               IF i <= call.numChannels
               THEN call.view[i] = CallerChannel(i)
               ELSE /\ call.view[i].kind # "caller"
                    /\ [buffer |-> call.view[i], length |-> call.numSamples]
                           \in call.allocated
                    /\ \A j \in 1..Len(call.view) : j # i => call.view[j] # call.view[i]

\* C11 (SpecParam): getParameter(name) on a handle with a live instance
\* returns the lowest-index parameter whose name at length 512 is name,
\* also when several parameters have that name, returns nullptr without
\* throwing when none has, and leaves the instance as it was.
C11_GetParameterFirstMatch ==
    (call.op = "getParameter" /\ call.instanceAtEntry # 0) =>
        LET parameters == heap[call.instanceAtEntry].parameters
            matches == {i \in 1..Len(parameters) :
                           GetName(parameters[i], DisplayNameLength) = call.name}
        IN  /\ call.outcome = "returned"
            /\ matches = {} => call.result = 0
            /\ matches # {} =>
                   /\ call.result \in matches
                   /\ \A i \in matches : call.result <= i
            /\ heap[call.instanceAtEntry] = call.objectAtEntry

\* C11 witness: a look-up has returned the first parameter of a list in
\* which a later parameter has the same name and the parameter state is
\* not the default.
C11_Witness ==
    /\ call.op = "getParameter"
    /\ call.instanceAtEntry # 0
    /\ call.result = 1
    /\ heap[call.instanceAtEntry].state # DefaultParam
    /\ \E i \in 2..Len(heap[call.instanceAtEntry].parameters) :
           GetName(heap[call.instanceAtEntry].parameters[i], DisplayNameLength) = call.name

\* C12: under every interleaving, createPluginInstance is only called
\* while the MessageManager singleton exists, and a step that deletes the
\* singleton is taken only when every other handle is unconstructed or
\* destroyed, none being alive or under construction.
C12_SingletonOutlivesHandles ==
    [][/\ \A h \in Handles :
              (pc[h] = "r_create" /\ pc'[h] # "r_create") => messageManager
       /\ (messageManager /\ ~messageManager') =>
              \A h \in Handles : pc'[h] = pc[h] => pc[h] \in {"unborn", "destroyed"}
      ]_vars

\* C13 (SpecAudio): every index at which process() writes channelPointers
\* is smaller than pluginBufferChannelCount, the length of the vector,
\* also when the block is then rejected by a channel-count check.
C13_WritesWithinChannelPointers ==
    call.op = "process" =>
        \A i \in call.written : i < call.pluginBufferChannelCount

====
